---- MODULE Spec2Model ----
(***************************************************************************)
(* Model of the YNotificator notification receiver                         *)
(* (YehudaEi/ESP32S3-Notifications-Receiver): the GATT write handler and   *)
(* packet parser of src/bluetooth/bluetooth.c, the notification store of   *)
(* src/notifications/notifications.c, the clock of src/rtc/rtc.c and the   *)
(* main loop of src/main.c.                                                *)
(*                                                                         *)
(* Every handler of the program is an operator from a program state (a     *)
(* record with one field per static variable of the source, plus `out`,    *)
(* what the handler returned and which collaborators it called) to the     *)
(* program state after it.  The actions apply the handlers to the          *)
(* variables.  C arrays keep their 0-based indices: they are functions     *)
(* on 0..n-1.                                                              *)
(***************************************************************************)
EXTENDS Integers, Sequences, FiniteSets, TLC

(***************************************************************************)
(* Program constants.                                                      *)
(***************************************************************************)
NOTIFICATION_BUFFER_SIZE == 512
DELETE_TIMEOUT == 20
APP_NAME_SIZE == 32
SENDER_SIZE == 64
CONTENT_SIZE == 256
SAMPLE_TIME == 1700000000
CMD_ADD_NOTIFICATION == 1
CMD_REMOVE_NOTIFICATION == 2
CMD_CLEAR_ALL == 3
CMD_ACTION == 4
CMD_TIME_SYNC == 5
BT_ATT_ERR_INVALID_OFFSET == 7
BT_SECURITY_L2 == 2
EINVAL == 22

(***************************************************************************)
(* Bounds of the model.  MAX_NOTIFICATIONS is 30 in notifications.c; the   *)
(* handlers are parametric in it and the model checks them with a smaller  *)
(* array, no smaller than the five sample records the store starts with.   *)
(* MaxWrites caps the number of characteristic writes in one behaviour of  *)
(* the protocol specifications, MaxStuckTicks the number of ticks counted  *)
(* past DELETE_TIMEOUT by a timer that nothing resets, MaxDecodes the      *)
(* number of messages in one behaviour of the decoder specification.       *)
(***************************************************************************)
MAX_NOTIFICATIONS == 5
MaxWrites == 3
MaxDecodes == 1
MaxStuckTicks == 1

VARIABLES
    notifications,          \* notifications.c: slots 0..notification_count-1 of the array
    notification_count,     \* notifications.c
    current_notification,   \* notifications.c
    delete_pending,         \* notifications.c
    delete_pending_index,   \* notifications.c
    delete_timer_counter,   \* notifications.c
    status_circle,          \* notifications.c: the connection status shown
    notification_buffer,    \* bluetooth.c
    notification_buffer_len,\* bluetooth.c
    time_is_valid,          \* rtc.c
    last_set_timestamp,     \* rtc.c
    current_conn,           \* bluetooth.c: the connection held, or "NULL"
    current_state,          \* bluetooth.c
    advertising_active,     \* bluetooth.c
    pairing_in_progress,    \* bluetooth.c
    pairing_passkey,        \* bluetooth.c
    pairing_conn,           \* bluetooth.c: the connection being paired, or "NULL"
    pairing_screen,         \* pairing_screen.c: the screen object, or "NULL"
    passkey_label,          \* pairing_screen.c: the text of the passkey label
    screen_visible,         \* pairing_screen.c
    previous_screen,        \* pairing_screen.c
    scr_act,                \* the active screen of the display (lv_scr_act)
    conn_sec,               \* the security level of the link (bt_conn_get_security)
    out,                    \* what the last handler returned and called
    last,                   \* history: the handler that ran last
    snap,                   \* history: the store when the pending delete was requested
    writes,                 \* history: number of characteristic writes so far
    main_pc                 \* position of the main loop inside complete_deletion

vars == <<notifications, notification_count, current_notification, delete_pending,
          delete_pending_index, delete_timer_counter, status_circle,
          notification_buffer, notification_buffer_len, time_is_valid,
          last_set_timestamp, current_conn, current_state, advertising_active,
          pairing_in_progress, pairing_passkey, pairing_conn, pairing_screen,
          passkey_label, screen_visible, previous_screen, scr_act, conn_sec,
          out, last, snap, writes, main_pc>>

(***************************************************************************)
(* The program state as one record, and its assignment to the variables.   *)
(***************************************************************************)
State ==
    [notifications |-> notifications,
     notification_count |-> notification_count,
     current_notification |-> current_notification,
     delete_pending |-> delete_pending,
     delete_pending_index |-> delete_pending_index,
     delete_timer_counter |-> delete_timer_counter,
     status_circle |-> status_circle,
     notification_buffer |-> notification_buffer,
     notification_buffer_len |-> notification_buffer_len,
     time_is_valid |-> time_is_valid,
     last_set_timestamp |-> last_set_timestamp,
     current_conn |-> current_conn,
     current_state |-> current_state,
     advertising_active |-> advertising_active,
     pairing_in_progress |-> pairing_in_progress,
     pairing_passkey |-> pairing_passkey,
     pairing_conn |-> pairing_conn,
     pairing_screen |-> pairing_screen,
     passkey_label |-> passkey_label,
     screen_visible |-> screen_visible,
     previous_screen |-> previous_screen,
     scr_act |-> scr_act,
     conn_sec |-> conn_sec,
     out |-> out]

SetState(s) ==
    /\ notifications' = s.notifications
    /\ notification_count' = s.notification_count
    /\ current_notification' = s.current_notification
    /\ delete_pending' = s.delete_pending
    /\ delete_pending_index' = s.delete_pending_index
    /\ delete_timer_counter' = s.delete_timer_counter
    /\ status_circle' = s.status_circle
    /\ notification_buffer' = s.notification_buffer
    /\ notification_buffer_len' = s.notification_buffer_len
    /\ time_is_valid' = s.time_is_valid
    /\ last_set_timestamp' = s.last_set_timestamp
    /\ current_conn' = s.current_conn
    /\ current_state' = s.current_state
    /\ advertising_active' = s.advertising_active
    /\ pairing_in_progress' = s.pairing_in_progress
    /\ pairing_passkey' = s.pairing_passkey
    /\ pairing_conn' = s.pairing_conn
    /\ pairing_screen' = s.pairing_screen
    /\ passkey_label' = s.passkey_label
    /\ screen_visible' = s.screen_visible
    /\ previous_screen' = s.previous_screen
    /\ scr_act' = s.scr_act
    /\ conn_sec' = s.conn_sec
    /\ out' = s.out

(***************************************************************************)
(* What a handler returned and called.  ret is the return value of         *)
(* on_notification_write (the number of bytes taken, or                    *)
(* BT_GATT_ERR(BT_ATT_ERR_INVALID_OFFSET)); overflow_cb and malformed_cb are the      *)
(* error callbacks invoked ("none", or the reason string); dispatch is the *)
(* collaborator call the parser made for the decoded command; oob_read     *)
(* and oob_write tell that the handler read or wrote outside the           *)
(* notifications array.  drop_cb is the connection-drop callback invoked; *)
(* adv_start, adv_stop, set_security and auth are the requests made to the *)
(* transport (bt_le_adv_start, bt_le_adv_stop, bt_conn_set_security,       *)
(* bt_conn_auth_passkey_confirm / bt_conn_auth_cancel) with their          *)
(* outcome; states lists the values assigned to current_state, in order;   *)
(* parsed tells whether parse_notification_packet was called, and with     *)
(* which len bytes.                                                        *)
(***************************************************************************)
NoDispatch == [call |-> "none"]

NotParsed == [called |-> FALSE]

NoOut ==
    [ret |-> 0, overflow_cb |-> "none", malformed_cb |-> "none",
     dispatch |-> NoDispatch, oob_read |-> FALSE, oob_write |-> FALSE,
     drop_cb |-> "none", adv_start |-> "none", adv_stop |-> "none",
     set_security |-> "none", auth |-> "none", states |-> <<>>,
     parsed |-> NotParsed]

Begin(s) == [s EXCEPT !.out = NoOut]

(***************************************************************************)
(* C helpers.                                                              *)
(***************************************************************************)
Min(a, b) == IF a < b THEN a ELSE b

\* a % b of C for b > 0: the result has the sign of a.
CMod(a, b) == IF a >= 0 THEN a % b ELSE 0 - ((0 - a) % b)

\* The C string held by a char array filled from `bytes`: the bytes before the
\* first NUL.
CStr(bytes) ==
    LET nuls == {i \in 1..Len(bytes) : bytes[i] = 0}
    IN  IF nuls = {} THEN bytes
        ELSE SubSeq(bytes, 1, (CHOOSE i \in nuls : \A j \in nuls : i <= j) - 1)

\* A uint32_t is the pair of its high and low 16 bits, <<v \div 2^16, v % 2^16>>:
\* the integers of the model checker end at 2^31 - 1.
U32(v) == <<v \div 65536, v % 65536>>

Prefix(seq, n) == SubSeq(seq, 1, Min(n, Len(seq)))

\* strncpy(dst, src, size - 1); dst[size - 1] = '\0', read back as a C string.
StrNCpy(src, size) == Prefix(CStr(src), size - 1)

(***************************************************************************)
(* notifications.c: the notification store.                                *)
(*                                                                         *)
(* `notifications` holds slots 0..notification_count-1 of the C array.     *)
(* The slots from notification_count on are dead storage: the count only   *)
(* grows in notifications_add_notification_with_timestamp, which writes    *)
(* the slot it makes live, so no handler reads what they hold.             *)
(***************************************************************************)
Live(n) == 0 .. (n - 1)

\* init_sample_notifications: the five records the store starts with.
SampleNotifications ==
    [i \in Live(5) |->
        CASE i = 0 ->
               [app_name |-> <<87, 104, 97, 116, 115, 65, 112, 112>>,
                sender |-> <<77, 111, 109>>,
                content |-> <<72, 105, 32, 104, 111, 110, 101, 121, 33, 32, 72, 111,
                              119, 32, 97, 114, 101, 32, 121, 111, 117, 32, 116, 111,
                              100, 97, 121, 63>>,
                timestamp |-> U32(SAMPLE_TIME - 300), is_read |-> FALSE]
          [] i = 1 ->
               [app_name |-> <<71, 109, 97, 105, 108>>,
                sender |-> <<195, 151, 197, 190, 195, 151, 194, 169, 195, 151, 226,
                             128, 157, 32, 195, 151, 226, 128, 186, 195, 151, 226,
                             128, 157, 195, 151, 197, 184>>,
                content |-> <<195, 151, 226, 128, 152, 195, 151, 226, 128, 156, 195,
                              151, 226, 132, 162, 195, 151, 194, 167, 195, 151, 226,
                              128, 157, 32, 195, 151, 194, 169, 195, 151, 197, 147,
                              32, 195, 151, 226, 128, 157, 195, 151, 226, 128, 162,
                              195, 151, 226, 128, 156, 195, 151, 194, 162, 195, 151,
                              226, 128, 157, 32, 195, 151, 226, 128, 152, 195, 151,
                              194, 162, 195, 151, 226, 128, 152, 195, 151, 194, 168,
                              195, 151, 226, 132, 162, 195, 151, 194, 170, 32, 195,
                              151, 197, 190, 195, 151, 194, 169, 195, 151, 226, 128,
                              157, 195, 151, 226, 128, 162, 32, 195, 151, 197, 190,
                              195, 151, 194, 169, 195, 151, 226, 128, 157, 195, 151,
                              226, 128, 162, 46>>,
                timestamp |-> U32(SAMPLE_TIME - 1800), is_read |-> FALSE]
          [] i = 2 ->
               [app_name |-> <<77, 101, 115, 115, 97, 103, 101, 115>>,
                sender |-> <<74, 111, 104, 110>>,
                content |-> <<65, 114, 101, 32, 119, 101, 32, 115, 116, 105, 108,
                              108, 32, 109, 101, 101, 116, 105, 110, 103, 32, 116,
                              111, 110, 105, 103, 104, 116, 63>>,
                timestamp |-> U32(SAMPLE_TIME - 7200), is_read |-> TRUE]
          [] i = 3 ->
               [app_name |-> <<68, 105, 115, 99, 111, 114, 100>>,
                sender |-> <<68, 101, 118, 32, 84, 101, 97, 109>>,
                content |-> <<78, 101, 119, 32, 99, 111, 109, 109, 105, 116, 32, 112,
                              117, 115, 104, 101, 100, 32, 116, 111, 32, 109, 97, 105,
                              110, 32, 98, 114, 97, 110, 99, 104, 46, 32, 80, 108,
                              101, 97, 115, 101, 32, 114, 101, 118, 105, 101, 119, 32,
                              116, 104, 101, 32, 99, 104, 97, 110, 103, 101, 115, 32,
                              105, 110, 32, 116, 104, 101, 32, 110, 111, 116, 105,
                              102, 105, 99, 97, 116, 105, 111, 110, 32, 115, 121,
                              115, 116, 101, 109, 32, 105, 109, 112, 108, 101, 109,
                              101, 110, 116, 97, 116, 105, 111, 110, 46>>,
                timestamp |-> U32(SAMPLE_TIME - 18000), is_read |-> FALSE]
          [] OTHER ->
               [app_name |-> <<84, 101, 108, 101, 103, 114, 97, 109>>,
                sender |-> <<83, 97, 114, 97, 104>>,
                content |-> <<67, 104, 101, 99, 107, 32, 116, 104, 105, 115, 32, 111,
                              117, 116, 32, 195, 176, 197, 184, 197, 161, 226, 130,
                              172, 33>>,
                timestamp |-> U32(SAMPLE_TIME - 86400), is_read |-> FALSE]]

\* update_notification_display: it changes widgets only; with a non-zero count it
\* reads notifications[current_notification], wherever that is.
update_notification_display(s) ==
    IF s.notification_count # 0
       /\ s.current_notification \notin Live(MAX_NOTIFICATIONS)
    THEN [s EXCEPT !.out.oob_read = TRUE]
    ELSE s

\* A variant that stops at the last record.
next_notification_no_wrap(s) ==
    IF s.notification_count > 0
    THEN update_notification_display(
             [s EXCEPT !.current_notification =
                 Min(s.current_notification + 1, s.notification_count - 1)])
    ELSE s

next_notification(s) ==
    IF s.notification_count > 0
    THEN update_notification_display(
             [s EXCEPT !.current_notification =
                 CMod(s.current_notification + 1, s.notification_count)])
    ELSE s

prev_notification(s) ==
    IF s.notification_count > 0
    THEN update_notification_display(
             [s EXCEPT !.current_notification =
                 CMod(s.current_notification - 1 + s.notification_count,
                      s.notification_count)])
    ELSE s

mark_current_as_read(s) ==
    IF s.notification_count > 0
    THEN update_notification_display(
             IF s.current_notification \in DOMAIN s.notifications
             THEN [s EXCEPT !.notifications[s.current_notification].is_read = TRUE]
             ELSE [s EXCEPT !.out.oob_write =
                       @ \/ s.current_notification \notin Live(MAX_NOTIFICATIONS)])
    ELSE s

\* A variant that moves the cursor on while the deletion is pending.
delete_current_notification_preview(s) ==
    IF s.notification_count = 0
    THEN s
    ELSE [s EXCEPT !.delete_pending = TRUE,
                   !.delete_pending_index = s.current_notification,
                   !.delete_timer_counter = 0,
                   !.current_notification =
                       CMod(s.current_notification + 1, s.notification_count)]

delete_current_notification(s) ==
    IF s.notification_count = 0
    THEN s
    ELSE [s EXCEPT !.delete_pending = TRUE,
                   !.delete_pending_index = s.current_notification,
                   !.delete_timer_counter = 0]

undo_deletion(s) ==
    IF s.delete_pending /\ s.delete_pending_index >= 0
    THEN update_notification_display(
             [s EXCEPT !.delete_pending = FALSE,
                       !.delete_pending_index = -1,
                       !.delete_timer_counter = 0])
    ELSE s

\* A variant of the loop that starts one slot late.
cd_shift_late(s) ==
    [s EXCEPT !.notifications =
        [i \in DOMAIN s.notifications |->
            IF i >= s.delete_pending_index + 1 /\ i < s.notification_count - 1
            THEN s.notifications[i + 1]
            ELSE s.notifications[i]]]

\* complete_deletion in three parts, in the order of its statements: the loop
\* that shifts the records after index_to_delete down by one,
cd_shift(s) ==
    [s EXCEPT !.notifications =
        [i \in DOMAIN s.notifications |->
            IF i >= s.delete_pending_index /\ i < s.notification_count - 1
            THEN s.notifications[i + 1]
            ELSE s.notifications[i]]]

\* notification_count-- and the adjustment of current_notification,
cd_count(s) ==
    LET count == s.notification_count - 1
    IN  [s EXCEPT !.notifications = [i \in Live(count) |-> s.notifications[i]],
                  !.notification_count = count,
                  !.current_notification =
                      IF count = 0 THEN 0
                      ELSE IF s.current_notification >= count THEN count - 1
                      ELSE s.current_notification]

\* and the clearing of the pending state with the refresh of the display.
cd_finish(s) ==
    update_notification_display(
        [s EXCEPT !.delete_pending = FALSE,
                  !.delete_pending_index = -1,
                  !.delete_timer_counter = 0])

complete_deletion(s) ==
    IF ~s.delete_pending \/ s.delete_pending_index < 0
    THEN s
    ELSE cd_finish(cd_count(cd_shift(s)))

handle_delete_timeout(s) ==
    IF s.delete_pending
    THEN LET t == [s EXCEPT !.delete_timer_counter = s.delete_timer_counter + 1]
         IN  IF t.delete_timer_counter >= DELETE_TIMEOUT
             THEN complete_deletion(t)
             ELSE t
    ELSE s

\* The record notifications_add_notification_with_timestamp stores.
NewNotification(app_name, sender, content, timestamp) ==
    [app_name |-> StrNCpy(app_name, APP_NAME_SIZE),
     sender |-> StrNCpy(sender, SENDER_SIZE),
     content |-> StrNCpy(content, CONTENT_SIZE),
     timestamp |-> timestamp,
     is_read |-> FALSE]

\* A variant that evicts only above capacity.
EvictOldest_late(s) ==
    IF s.notification_count > MAX_NOTIFICATIONS
    THEN [s EXCEPT !.notifications =
                       [i \in Live(s.notification_count - 1) |-> s.notifications[i + 1]],
                   !.notification_count = s.notification_count - 1]
    ELSE s

\* The eviction of notifications_add_notification_with_timestamp.
EvictOldest(s) ==
    IF s.notification_count >= MAX_NOTIFICATIONS
    THEN [s EXCEPT !.notifications =
                       [i \in Live(s.notification_count - 1) |-> s.notifications[i + 1]],
                   !.notification_count = s.notification_count - 1,
                   !.current_notification =
                       IF s.current_notification > 0
                       THEN s.current_notification - 1
                       ELSE s.current_notification]
    ELSE s

notifications_add_notification_with_timestamp(s, app_name, sender, content, timestamp) ==
    LET e == EvictOldest(s)
        slot == e.notification_count
        rec == NewNotification(app_name, sender, content, timestamp)
    IN  update_notification_display(
            IF slot \in Live(MAX_NOTIFICATIONS)
            THEN [e EXCEPT !.notifications =
                               [i \in Live(slot + 1) |->
                                   IF i = slot THEN rec ELSE e.notifications[i]],
                           !.notification_count = slot + 1,
                           !.current_notification = slot]
            ELSE \* &notifications[slot] lies outside the array
                 [e EXCEPT !.out.oob_write = TRUE,
                           !.notification_count = slot + 1,
                           !.current_notification = slot])

notifications_clear_all(s) ==
    update_notification_display(
        [s EXCEPT !.notifications = [i \in Live(0) |-> 0],
                  !.notification_count = 0,
                  !.current_notification = 0])

\* refresh: 30 s have passed since the last refresh of the relative times.
notifications_handle_timers(s, refresh) ==
    LET t == handle_delete_timeout(s)
    IN  IF refresh /\ t.notification_count > 0
        THEN update_notification_display(t)
        ELSE t

\* The gestures of screen_event_handler.
Gestures == {"LEFT", "RIGHT", "TOP", "BOTTOM", "CLICKED", "DOUBLE_CLICKED"}

screen_event_handler(s, g) ==
    CASE g = "LEFT" ->
           IF ~s.delete_pending THEN next_notification(mark_current_as_read(s)) ELSE s
      [] g = "RIGHT" ->
           IF ~s.delete_pending THEN prev_notification(mark_current_as_read(s)) ELSE s
      [] g = "TOP" ->
           IF ~s.delete_pending THEN delete_current_notification(s) ELSE s
      [] g = "CLICKED" ->
           IF s.delete_pending THEN undo_deletion(s) ELSE s
      [] g = "DOUBLE_CLICKED" ->
           IF ~s.delete_pending THEN mark_current_as_read(s) ELSE s
      [] OTHER -> s

(***************************************************************************)
(* rtc.c: the clock.  ok tells whether the RTC device took the time.       *)
(***************************************************************************)
ENR_rtc_set_time(s, timestamp, ok) ==
    IF ok
    THEN [s EXCEPT !.time_is_valid = TRUE, !.last_set_timestamp = timestamp]
    ELSE s

\* notifications_update_connection_status
notifications_update_connection_status(s, status) ==
    [s EXCEPT !.status_circle = status]

(***************************************************************************)
(* bluetooth.c: the packet parser and the GATT write handler.  A packet is *)
(* read from `data`, a function on the byte offsets, as the C code reads   *)
(* it from notification_buffer.                                            *)
(***************************************************************************)
\* The n bytes of data from offset `from`.
Bytes(data, from, n) == [j \in 1..n |-> data[from + j - 1]]

\* A variant that reads the four bytes most significant first.
LE32_big_endian(data, o) ==
    <<data[o + 1] + data[o] * 256, data[o + 3] + data[o + 2] * 256>>

\* data[o] | data[o+1] << 8 | data[o+2] << 16 | data[o+3] << 24, as uint32_t.
\* The operands are promoted to int; with data[o+3] >= 128 the last shift
\* reaches the sign bit, which the compiler of the build (GCC) defines as the
\* shift of the bit pattern, and the conversion to uint32_t keeps the pattern.
LE32(data, o) == <<data[o + 2] + data[o + 3] * 256, data[o] + data[o + 1] * 256>>

\* char field[size] = {0}; memcpy(field, data + from, n < size-1 ? n : size-1),
\* passed on as a C string.
Field(data, from, n, size) == CStr(Bytes(data, from, Min(n, size - 1)))

\* The length validation of an AddNotification packet, after its 9-byte header.
LengthsInvalid_unchecked(app_len, title_len, text_len, len) == FALSE

LengthsInvalid(app_len, title_len, text_len, len) ==
    9 + app_len + title_len + text_len > len

Malformed(s, reason) == [s EXCEPT !.out.malformed_cb = reason]

\* A variant that knows CMD_ACTION only.
Reserved_action_only(cmd) == cmd = CMD_ACTION

\* case CMD_REMOVE_NOTIFICATION: case CMD_ACTION: the commands without effect.
Reserved(cmd) == cmd \in {CMD_REMOVE_NOTIFICATION, CMD_ACTION}

parse_notification_packet(s, data, len, rtc_ok) ==
    IF len < 1 THEN Malformed(s, "Packet too short")
    ELSE CASE data[0] = CMD_TIME_SYNC ->
                IF len < 5 THEN Malformed(s, "Invalid time sync packet")
                ELSE LET timestamp == LE32(data, 1)
                     IN  ENR_rtc_set_time(
                             [s EXCEPT !.out.dispatch =
                                 [call |-> "ENR_rtc_set_time", timestamp |-> timestamp]],
                             timestamp, rtc_ok)
           [] data[0] = CMD_ADD_NOTIFICATION ->
                IF len < 9 THEN Malformed(s, "Packet too short")
                ELSE LET app_len == data[2]
                         title_len == data[3]
                         text_len == data[4]
                         timestamp == LE32(data, 5)
                         app_name == Field(data, 9, app_len, APP_NAME_SIZE)
                         title == Field(data, 9 + app_len, title_len, SENDER_SIZE)
                         text == Field(data, 9 + app_len + title_len, text_len,
                                       CONTENT_SIZE)
                     IN  IF LengthsInvalid(app_len, title_len, text_len, len)
                         THEN Malformed(s, "Invalid packet lengths")
                         ELSE notifications_add_notification_with_timestamp(
                                  notifications_update_connection_status(
                                      [s EXCEPT !.out.dispatch =
                                          [call |-> "notifications_add_notification_with_timestamp",
                                           app_name |-> app_name, title |-> title,
                                           text |-> text, timestamp |-> timestamp]],
                                      "CONN_CONNECTED"),
                                  app_name, title, text, timestamp)
           [] data[0] = CMD_CLEAR_ALL ->
                notifications_clear_all(
                    [s EXCEPT !.out.dispatch = [call |-> "notifications_clear_all"]])
           [] Reserved(data[0]) -> s
           [] OTHER -> Malformed(s, "Unknown command")

\* The overflow test of on_notification_write; the uint16_t operands are
\* promoted to int, so the sum does not wrap.
WriteOverflows_len_only(offset, len) == len > NOTIFICATION_BUFFER_SIZE

\* A variant that lets a write end one byte past the buffer.
WriteOverflows_off_by_one(offset, len) == offset + len > NOTIFICATION_BUFFER_SIZE + 1

WriteOverflows(offset, len) == offset + len > NOTIFICATION_BUFFER_SIZE

\* memcpy(notification_buffer + offset, buf, len)
CopyIn(buffer, offset, buf) ==
    [i \in DOMAIN buffer |->
        IF offset <= i /\ i < offset + Len(buf) THEN buf[i - offset + 1] ELSE buffer[i]]

\* The bytes parse_notification_packet is called with.
Handed(data, len) == [called |-> TRUE, data |-> [i \in 1..len |-> data[i - 1]]]

\* A variant that keeps the high-water mark of the earlier writes.
on_notification_write_high_water(s, buf, offset, rtc_ok) ==
    LET len == Len(buf)
    IN  IF WriteOverflows(offset, len)
        THEN [s EXCEPT !.out.overflow_cb = "Notification buffer overflow",
                       !.out.ret = 0 - BT_ATT_ERR_INVALID_OFFSET]
        ELSE LET w == [s EXCEPT !.notification_buffer =
                                    CopyIn(s.notification_buffer, offset, buf),
                                !.notification_buffer_len =
                                    IF s.notification_buffer_len > offset + len
                                    THEN s.notification_buffer_len
                                    ELSE offset + len,
                                !.out.ret = len]
             IN  IF offset = 0
                 THEN [parse_notification_packet(
                           [w EXCEPT !.out.parsed =
                               Handed(w.notification_buffer, w.notification_buffer_len)],
                           w.notification_buffer, w.notification_buffer_len, rtc_ok)
                          EXCEPT !.notification_buffer_len = 0]
                 ELSE w

\* A variant that leaves notification_buffer_len set after the parse.
on_notification_write_no_reset(s, buf, offset, rtc_ok) ==
    LET len == Len(buf)
    IN  IF WriteOverflows(offset, len)
        THEN [s EXCEPT !.out.overflow_cb = "Notification buffer overflow",
                       !.out.ret = 0 - BT_ATT_ERR_INVALID_OFFSET]
        ELSE LET w == [s EXCEPT !.notification_buffer =
                                    CopyIn(s.notification_buffer, offset, buf),
                                !.notification_buffer_len = offset + len,
                                !.out.ret = len]
             IN  IF offset = 0
                 THEN parse_notification_packet(
                          [w EXCEPT !.out.parsed =
                              Handed(w.notification_buffer, w.notification_buffer_len)],
                          w.notification_buffer, w.notification_buffer_len, rtc_ok)
                 ELSE w

on_notification_write(s, buf, offset, rtc_ok) ==
    LET len == Len(buf)
    IN  IF WriteOverflows(offset, len)
        THEN [s EXCEPT !.out.overflow_cb = "Notification buffer overflow",
                       !.out.ret = 0 - BT_ATT_ERR_INVALID_OFFSET]
        ELSE LET w == [s EXCEPT !.notification_buffer =
                                    CopyIn(s.notification_buffer, offset, buf),
                                !.notification_buffer_len = offset + len,
                                !.out.ret = len]
             IN  IF offset = 0
                 THEN [parse_notification_packet(
                           [w EXCEPT !.out.parsed =
                               Handed(w.notification_buffer, w.notification_buffer_len)],
                           w.notification_buffer, w.notification_buffer_len, rtc_ok)
                          EXCEPT !.notification_buffer_len = 0]
                 ELSE w

(***************************************************************************)
(* The pairing screen of src/bluetooth/pairing_screen.c.  A screen is      *)
(* named by the variable that holds it ("main_screen", "pairing_screen");  *)
(* "NULL" is no screen.  The passkey label holds what "%06u" prints: the   *)
(* decimal digits of the passkey, padded with zeros to six.                *)
(***************************************************************************)
RECURSIVE Dec(_)
Dec(n) == IF n < 10 THEN <<n>> ELSE Dec(n \div 10) \o <<n % 10>>

Fmt06(n) ==
    LET d == Dec(n)
    IN  IF Len(d) >= 6 THEN d ELSE [i \in 1..(6 - Len(d)) |-> 0] \o d

\* A mutant of create_pairing_ui: an existing screen keeps its label.
create_pairing_ui_stale(s, passkey) ==
    IF s.pairing_screen # "NULL" THEN s
    ELSE [s EXCEPT !.pairing_screen = "pairing_screen", !.passkey_label = Fmt06(passkey)]

create_pairing_ui(s, passkey) ==
    IF s.pairing_screen # "NULL"
    THEN [s EXCEPT !.passkey_label = Fmt06(passkey)]
    ELSE [s EXCEPT !.pairing_screen = "pairing_screen", !.passkey_label = Fmt06(passkey)]

show_pairing_screen(s, passkey) ==
    LET s1 == [s EXCEPT !.previous_screen = s.scr_act]
        s2 == create_pairing_ui(s1, passkey)
    IN  [s2 EXCEPT !.scr_act = s2.pairing_screen, !.screen_visible = TRUE]

\* lv_obj_del of the screen that is active leaves the display with no active
\* screen.
hide_pairing_screen(s) ==
    IF ~s.screen_visible THEN s
    ELSE LET s1 == IF s.previous_screen # "NULL"
                   THEN [s EXCEPT !.scr_act = s.previous_screen] ELSE s
             s2 == IF s1.pairing_screen # "NULL"
                   THEN [s1 EXCEPT !.scr_act = IF @ = s1.pairing_screen THEN "NULL" ELSE @,
                                   !.pairing_screen = "NULL",
                                   !.passkey_label = <<>>]
                   ELSE s1
         IN  [s2 EXCEPT !.screen_visible = FALSE, !.previous_screen = "NULL"]

is_pairing_screen_visible(s) == s.screen_visible

(***************************************************************************)
(* The connection and pairing handlers of src/bluetooth/bluetooth.c.  The  *)
(* outcome of each request to the transport is an input of the handler:    *)
(* adv_ok that of bt_le_adv_start or bt_le_adv_stop, sec_ok that of        *)
(* bt_conn_set_security.                                                   *)
(***************************************************************************)
SetBleState(s, st) ==
    [s EXCEPT !.current_state = st, !.out.states = Append(@, st)]

start_advertising(s, adv_ok) ==
    IF s.advertising_active THEN [s EXCEPT !.out.ret = 0]
    ELSE IF ~adv_ok THEN [s EXCEPT !.out.adv_start = "failed", !.out.ret = -1]
    ELSE LET s1 == [s EXCEPT !.out.adv_start = "ok", !.advertising_active = TRUE]
             s2 == SetBleState(s1, "BLE_STATE_ADVERTISING")
             s3 == notifications_update_connection_status(s2, "CONN_DISCONNECTED")
         IN  [s3 EXCEPT !.out.ret = 0]

stop_advertising(s, adv_ok) ==
    IF ~s.advertising_active THEN [s EXCEPT !.out.ret = 0]
    ELSE IF ~adv_ok THEN [s EXCEPT !.out.adv_stop = "failed", !.out.ret = -1]
    ELSE LET s1 == [s EXCEPT !.out.adv_stop = "ok", !.advertising_active = FALSE]
             s2 == IF s1.current_state = "BLE_STATE_ADVERTISING"
                   THEN SetBleState(s1, "BLE_STATE_DISCONNECTED") ELSE s1
         IN  [s2 EXCEPT !.out.ret = 0]

get_ble_state(s) == s.current_state

ClearSession(s) ==
    [s EXCEPT !.pairing_in_progress = FALSE, !.pairing_passkey = 0, !.pairing_conn = "NULL"]

auth_passkey_display(s, conn, passkey) ==
    show_pairing_screen([s EXCEPT !.pairing_in_progress = TRUE,
                                  !.pairing_passkey = passkey,
                                  !.pairing_conn = conn], passkey)

auth_passkey_confirm(s, conn, passkey) ==
    show_pairing_screen([s EXCEPT !.pairing_in_progress = TRUE,
                                  !.pairing_passkey = passkey,
                                  !.pairing_conn = conn], passkey)

auth_cancel(s) == hide_pairing_screen(ClearSession(s))

\* A mutant of pairing_complete: the passkey screen stays.
pairing_complete_keeps_screen(s) ==
    notifications_update_connection_status(
        SetBleState(ClearSession(s), "BLE_STATE_PAIRED"), "CONN_CONNECTED")

pairing_complete(s) ==
    notifications_update_connection_status(
        hide_pairing_screen(SetBleState(ClearSession(s), "BLE_STATE_PAIRED")),
        "CONN_CONNECTED")

\* A mutant of pairing_failed: the failure drops the state to disconnected.
pairing_failed_falls_back(s) ==
    hide_pairing_screen(SetBleState(ClearSession(s), "BLE_STATE_DISCONNECTED"))

pairing_failed(s) == hide_pairing_screen(ClearSession(s))

\* A mutant of connected: no security upgrade is requested.
connected_no_security(s, conn, err, sec_ok, adv_ok) ==
    IF err # 0
    THEN start_advertising(
             notifications_update_connection_status(
                 SetBleState(s, "BLE_STATE_DISCONNECTED"), "CONN_DISCONNECTED"), adv_ok)
    ELSE notifications_update_connection_status(
             [SetBleState([s EXCEPT !.current_conn = conn], "BLE_STATE_CONNECTED")
                 EXCEPT !.advertising_active = FALSE], "CONN_CONNECTING")

connected(s, conn, err, sec_ok, adv_ok) ==
    IF err # 0
    THEN start_advertising(
             notifications_update_connection_status(
                 SetBleState(s, "BLE_STATE_DISCONNECTED"), "CONN_DISCONNECTED"), adv_ok)
    ELSE LET s1 == SetBleState([s EXCEPT !.current_conn = conn], "BLE_STATE_CONNECTED")
             s2 == notifications_update_connection_status(
                       [s1 EXCEPT !.advertising_active = FALSE], "CONN_CONNECTING")
         IN  [s2 EXCEPT !.out.set_security = IF sec_ok THEN "ok" ELSE "failed"]

\* A mutant of disconnected: the pairing session survives the link.
disconnected_keeps_session(s, adv_ok) ==
    LET s1 == SetBleState([s EXCEPT !.current_conn = "NULL"], "BLE_STATE_DISCONNECTED")
        s3 == notifications_update_connection_status(s1, "CONN_DISCONNECTED")
        s4 == hide_pairing_screen(s3)
        s5 == [s4 EXCEPT !.out.drop_cb = "Connection dropped"]
    IN  start_advertising(s5, adv_ok)

\* A mutant of disconnected: the link takes a pending deletion with it.
disconnected_cancels_delete(s, adv_ok) ==
    LET s1 == SetBleState([s EXCEPT !.current_conn = "NULL"], "BLE_STATE_DISCONNECTED")
        s2 == ClearSession(s1)
        s3 == notifications_update_connection_status(s2, "CONN_DISCONNECTED")
        s4 == hide_pairing_screen(s3)
        s5 == [s4 EXCEPT !.out.drop_cb = "Connection dropped",
                         !.delete_pending = FALSE,
                         !.delete_pending_index = -1,
                         !.delete_timer_counter = 0]
    IN  start_advertising(s5, adv_ok)

disconnected(s, adv_ok) ==
    LET s1 == SetBleState([s EXCEPT !.current_conn = "NULL"], "BLE_STATE_DISCONNECTED")
        s2 == ClearSession(s1)
        s3 == notifications_update_connection_status(s2, "CONN_DISCONNECTED")
        s4 == hide_pairing_screen(s3)
        s5 == [s4 EXCEPT !.out.drop_cb = "Connection dropped"]
    IN  start_advertising(s5, adv_ok)

\* Mutants of security_changed: the level is not looked at; the state never
\* becomes paired.
security_changed_any_level(s, level, err) ==
    IF err = 0
    THEN notifications_update_connection_status(
             SetBleState(s, "BLE_STATE_PAIRED"), "CONN_CONNECTED")
    ELSE s

security_changed_no_state(s, level, err) ==
    IF err = 0 /\ level >= BT_SECURITY_L2
    THEN notifications_update_connection_status(s, "CONN_CONNECTED")
    ELSE s

security_changed(s, level, err) ==
    IF err = 0
    THEN IF level >= BT_SECURITY_L2
         THEN notifications_update_connection_status(
                  SetBleState(s, "BLE_STATE_PAIRED"), "CONN_CONNECTED")
         ELSE s
    ELSE s

is_pairing_in_progress(s) == s.pairing_in_progress

\* The return value and the code written to the caller's buffer of len bytes.
get_pairing_code(s, len) ==
    IF ~s.pairing_in_progress \/ len < 7
    THEN [ret |-> -EINVAL, code |-> <<>>]
    ELSE [ret |-> 0, code |-> Prefix(Fmt06(s.pairing_passkey), len - 1)]

\* A mutant of confirm_pairing: no session is needed.
confirm_pairing_unguarded(s) == [s EXCEPT !.out.auth = "confirm", !.out.ret = 0]

confirm_pairing(s) ==
    IF ~s.pairing_in_progress \/ s.pairing_conn = "NULL"
    THEN [s EXCEPT !.out.ret = -EINVAL]
    ELSE [s EXCEPT !.out.auth = "confirm", !.out.ret = 0]

reject_pairing(s) ==
    IF ~s.pairing_in_progress \/ s.pairing_conn = "NULL"
    THEN [s EXCEPT !.out.ret = -EINVAL]
    ELSE [s EXCEPT !.out.auth = "cancel", !.out.ret = 0]

\* The button callbacks of the pairing screen; the return values of
\* confirm_pairing and reject_pairing are dropped.
confirm_btn_event_cb(s) == hide_pairing_screen(confirm_pairing(s))

reject_btn_event_cb(s) == hide_pairing_screen(reject_pairing(s))

(***************************************************************************)
(* The state on entry to the main loop of main(): create_notification_-    *)
(* screen has loaded the samples, init_bluetooth has started advertising,  *)
(* the clock is not set and the static buffers are zero.                   *)
(***************************************************************************)
NoSnap == [valid |-> FALSE]

Snapshot(s) ==
    [valid |-> TRUE, ticks |-> 0, event |-> "none",
     notifications |-> s.notifications,
     notification_count |-> s.notification_count,
     current_notification |-> s.current_notification]

Init ==
    /\ notifications = SampleNotifications
    /\ notification_count = 5
    /\ current_notification = 0
    /\ delete_pending = FALSE
    /\ delete_pending_index = -1
    /\ delete_timer_counter = 0
    /\ status_circle = "CONN_DISCONNECTED"
    /\ notification_buffer = [i \in Live(NOTIFICATION_BUFFER_SIZE) |-> 0]
    /\ notification_buffer_len = 0
    /\ time_is_valid = FALSE
    /\ last_set_timestamp = U32(0)
    /\ current_conn = "NULL"
    /\ current_state = "BLE_STATE_ADVERTISING"
    /\ advertising_active = TRUE
    /\ pairing_in_progress = FALSE
    /\ pairing_passkey = 0
    /\ pairing_conn = "NULL"
    /\ pairing_screen = "NULL"
    /\ passkey_label = <<>>
    /\ screen_visible = FALSE
    /\ previous_screen = "NULL"
    /\ scr_act = "main_screen"
    /\ conn_sec = 1
    /\ out = NoOut
    /\ last = [op |-> "init"]
    /\ snap = NoSnap
    /\ writes = 0
    /\ main_pc = "idle"

\* No behaviour is followed past a write outside the notifications array: what
\* it overwrites is not defined.
Running == ~out.oob_write

\* The history variable `last` names the last handler that changed the program
\* state or produced an output; a handler that returned without effect leaves it.
Acted(s, name) == IF s = Begin(State) THEN last ELSE [op |-> name]

\* The snapshot after a tick: it counts the ticks of the pending deletion.
Ticked ==
    IF ~delete_pending THEN NoSnap
    ELSE IF snap.valid THEN [snap EXCEPT !.ticks = @ + 1]
    ELSE snap

(***************************************************************************)
(* The handlers as steps.  A gesture is one run of screen_event_handler in *)
(* the LVGL thread, a tick one pass of the main loop through               *)
(* notifications_handle_timers.                                            *)
(***************************************************************************)
Gesture(g) ==
    /\ Running
    /\ main_pc = "idle"
    /\ SetState(screen_event_handler(Begin(State), g))
    /\ last' = Acted(screen_event_handler(Begin(State), g), g)
    /\ snap' = IF delete_pending THEN snap
               ELSE IF g = "TOP" /\ notification_count # 0 THEN Snapshot(State)
               ELSE NoSnap
    /\ UNCHANGED <<writes, main_pc>>

Tick ==
    /\ Running
    /\ main_pc = "idle"
    /\ delete_timer_counter < DELETE_TIMEOUT + MaxStuckTicks
    /\ \E refresh \in BOOLEAN :
           /\ SetState(notifications_handle_timers(Begin(State), refresh))
           /\ last' = Acted(notifications_handle_timers(Begin(State), refresh), "tick")
    /\ snap' = Ticked
    /\ UNCHANGED <<writes, main_pc>>

(***************************************************************************)
(* The store driven through its public functions, as the parser drives it  *)
(* for a decoded AddNotification or ClearAll.                              *)
(***************************************************************************)
Str(c) == <<c>>

StoreAdds ==
    {[app_name |-> Str(65), sender |-> Str(66), content |-> Str(67),
      timestamp |-> U32(1000)]}

AddNotification(a) ==
    /\ Running
    /\ SetState(notifications_add_notification_with_timestamp(
                    Begin(State), a.app_name, a.sender, a.content, a.timestamp))
    /\ last' = Acted(notifications_add_notification_with_timestamp(
                         Begin(State), a.app_name, a.sender, a.content, a.timestamp),
                     "add")
    /\ snap' = NoSnap
    /\ UNCHANGED <<writes, main_pc>>

ClearAll ==
    /\ Running
    /\ SetState(notifications_clear_all(Begin(State)))
    /\ last' = Acted(notifications_clear_all(Begin(State)), "clear_all")
    /\ snap' = NoSnap
    /\ UNCHANGED <<writes, main_pc>>

NextStore ==
    \/ \E g \in Gestures : Gesture(g)
    \/ Tick
    \/ \E a \in StoreAdds : AddNotification(a)
    \/ ClearAll

SpecStore == Init /\ [][NextStore]_vars

(***************************************************************************)
(* The characteristic writes of the peer.  The messages are those of the   *)
(* wire format: AddNotification {category 1, "A", "B", "C", 1000}, the     *)
(* same with a byte after the declared strings, with a declared app        *)
(* length of 5 and 3 bytes left, and cut inside its header; TimeSync 1000  *)
(* whole and cut; ClearAll; the reserved commands; an unknown tag; the     *)
(* empty write.                                                            *)
(***************************************************************************)
MsgAdd == <<1, 1, 1, 1, 1, 232, 3, 0, 0, 65, 66, 67>>
MsgAddTrailing == MsgAdd \o <<88>>
MsgAddTruncated == <<1, 1, 5, 0, 0, 232, 3, 0, 0, 65, 66, 67>>
MsgAddShort == <<1, 1, 1>>
MsgTimeSync == <<5, 232, 3, 0, 0>>
MsgTimeSyncShort == <<5, 232, 3>>
MsgClearAll == <<3>>
MsgRemove == <<2>>
MsgAction == <<4, 1>>
MsgUnknown == <<9>>
MsgEmpty == <<>>

Messages ==
    {MsgAdd, MsgAddTrailing, MsgAddTruncated, MsgAddShort, MsgTimeSync,
     MsgTimeSyncShort, MsgClearAll, MsgRemove, MsgAction, MsgUnknown, MsgEmpty}

Front(m, k) == SubSeq(m, 1, k)
Rest(m, k) == SubSeq(m, k + 1, Len(m))

\* Whole messages at offset 0, two messages in two fragments, and writes at and
\* past the end of the buffer.
PeerWrites ==
    {[offset |-> 0, buf |-> m] : m \in Messages}
    \cup {[offset |-> 0, buf |-> Front(MsgAdd, 5)], [offset |-> 5, buf |-> Rest(MsgAdd, 5)],
          [offset |-> 0, buf |-> Front(MsgTimeSync, 2)],
          [offset |-> 2, buf |-> Rest(MsgTimeSync, 2)]}
    \cup {[offset |-> NOTIFICATION_BUFFER_SIZE - 3, buf |-> <<7, 8, 9>>],
          [offset |-> NOTIFICATION_BUFFER_SIZE - 2, buf |-> <<7, 8, 9>>],
          [offset |-> NOTIFICATION_BUFFER_SIZE, buf |-> <<>>],
          [offset |-> NOTIFICATION_BUFFER_SIZE + 1, buf |-> <<>>],
          [offset |-> 65535, buf |-> <<7>>]}

OnWrite(w) ==
    /\ Running
    /\ writes < MaxWrites
    /\ \E rtc_ok \in BOOLEAN :
           SetState(on_notification_write(Begin(State), w.buf, w.offset, rtc_ok))
    /\ last' = [op |-> "write", offset |-> w.offset, buf |-> w.buf]
    /\ snap' = NoSnap
    /\ writes' = writes + 1
    /\ UNCHANGED main_pc

NextProto == \E w \in PeerWrites : OnWrite(w)

SpecProto == Init /\ [][NextProto]_vars

(***************************************************************************)
(* The decoder alone: whole messages written at offset 0.  The TimeSync    *)
(* messages carry timestamps with small, large and top-bit bytes, whole,   *)
(* cut and with a byte to spare.                                           *)
(***************************************************************************)
TimeSyncs ==
    {<<CMD_TIME_SYNC, b1, b2, b3, b4>> :
        b1 \in {0, 255}, b2 \in {0, 1, 255}, b3 \in {0, 1, 255},
        b4 \in {0, 1, 127, 128, 255}}
    \cup {Front(<<CMD_TIME_SYNC, 232, 3, 0, 128, 7>>, k) : k \in 1..6}

\* n bytes, none of them zero, no two neighbours equal.
Ramp(first, n) == [j \in 1..n |-> first + (j % 50)]

\* The AddNotification message of the wire format: tag, category, the three
\* lengths, the timestamp bytes, the three strings.
AddMsg(app, title, body, ts) ==
    <<CMD_ADD_NOTIFICATION, 1, Len(app), Len(title), Len(body)>>
        \o ts \o app \o title \o body

\* AddNotification messages with strings inside, at and beyond the capacities
\* of the record (31, 63, 255), with empty strings, with a zero byte inside a
\* string, and with the top bit of the timestamp set.
AddMsgs ==
    {AddMsg(Str(65), Str(66), Str(67), <<232, 3, 0, 0>>),
     AddMsg(Ramp(1, 31), Ramp(60, 63), Ramp(120, 255), <<1, 2, 3, 4>>),
     AddMsg(Ramp(1, 33), <<66, 66>>, Str(67), <<232, 3, 0, 0>>),
     AddMsg(Str(65), Ramp(60, 65), Str(67), <<232, 3, 0, 0>>),
     AddMsg(Ramp(1, 40), Ramp(60, 70), Ramp(120, 255), <<0, 0, 0, 128>>),
     AddMsg(<<>>, <<>>, <<>>, <<255, 255, 255, 255>>),
     AddMsg(<<>>, Str(66), <<>>, <<232, 3, 0, 0>>),
     AddMsg(<<65, 0, 66>>, Str(66), Str(67), <<232, 3, 0, 0>>),
     AddMsg(Str(65), Str(66), <<67, 68, 0>>, <<232, 3, 0, 0>>)}

DecoderMessages == TimeSyncs \cup AddMsgs

Decode(m) ==
    /\ writes < MaxDecodes
    /\ OnWrite([offset |-> 0, buf |-> m])

NextDecoder == \E m \in DecoderMessages : Decode(m)

SpecDecoder == Init /\ [][NextDecoder]_vars

(***************************************************************************)
(* The connection events.  The transport holds one link to one peer: it    *)
(* reports a link (or a failure to make one) only while the device         *)
(* advertises and no link is up, and every other event only while the      *)
(* link is up.  security_changed reports the level of the link: a new      *)
(* level, never a lower one, when it succeeded, the level the link has     *)
(* when it failed.  The characteristic is declared with                    *)
(* BT_GATT_PERM_WRITE_ENCRYPT: the transport hands a write to              *)
(* on_notification_write only on an encrypted link (level 2 or above).     *)
(***************************************************************************)
SecurityLevels == 1..4
SecurityErrs == {0, 4}
ConnectErrs == {0, 62}
Passkeys == {123456, 42}

\* The snapshot of a pending deletion notes the connection event that ran
\* while it was pending.
ConnStep(s, sec, l) ==
    /\ SetState([s EXCEPT !.conn_sec = sec])
    /\ last' = l
    /\ snap' = IF snap.valid /\ delete_pending THEN [snap EXCEPT !.event = l.op] ELSE snap
    /\ UNCHANGED <<writes, main_pc>>

LinkUp == current_conn # "NULL"

Connected(err) ==
    /\ ~LinkUp
    /\ advertising_active
    /\ \E sec_ok \in BOOLEAN, adv_ok \in BOOLEAN :
           ConnStep(connected(Begin(State), "peer", err, sec_ok, adv_ok), 1,
                    [op |-> "connected", err |-> err, from |-> current_state])

Disconnected ==
    /\ LinkUp
    /\ \E adv_ok \in BOOLEAN :
           ConnStep(disconnected(Begin(State), adv_ok), 1,
                    [op |-> "disconnected", from |-> current_state,
                     session |-> pairing_in_progress, visible |-> screen_visible])

SecurityChanged(level, err) ==
    /\ LinkUp
    /\ IF err = 0 THEN level >= conn_sec ELSE level = conn_sec
    /\ ConnStep(security_changed(Begin(State), level, err), level,
                [op |-> "security_changed", level |-> level, err |-> err,
                 from |-> current_state])

PasskeyDisplay(passkey) ==
    /\ LinkUp
    /\ ConnStep(auth_passkey_display(Begin(State), current_conn, passkey), conn_sec,
                [op |-> "passkey", passkey |-> passkey, replaced |-> pairing_in_progress,
                 old |-> pairing_passkey])

PasskeyConfirm(passkey) ==
    /\ LinkUp
    /\ ConnStep(auth_passkey_confirm(Begin(State), current_conn, passkey), conn_sec,
                [op |-> "passkey", passkey |-> passkey, replaced |-> pairing_in_progress,
                 old |-> pairing_passkey])

AuthCancel ==
    /\ LinkUp
    /\ ConnStep(auth_cancel(Begin(State)), conn_sec, [op |-> "auth_cancel"])

PairingComplete ==
    /\ LinkUp
    /\ ConnStep(pairing_complete(Begin(State)), conn_sec,
                [op |-> "pairing_complete", from |-> current_state,
                 session |-> pairing_in_progress, visible |-> screen_visible])

PairingFailed ==
    /\ LinkUp
    /\ ConnStep(pairing_failed(Begin(State)), conn_sec,
                [op |-> "pairing_failed", from |-> current_state,
                 session |-> pairing_in_progress, visible |-> screen_visible])

\* The buttons exist while the pairing screen does, and take clicks while it is
\* the active screen.
ConfirmClick ==
    /\ pairing_screen # "NULL" /\ scr_act = pairing_screen
    /\ ConnStep(confirm_btn_event_cb(Begin(State)), conn_sec, [op |-> "confirm_click"])

RejectClick ==
    /\ pairing_screen # "NULL" /\ scr_act = pairing_screen
    /\ ConnStep(reject_btn_event_cb(Begin(State)), conn_sec, [op |-> "reject_click"])

\* The writes of a peer on the encrypted link: whole messages, one that fails
\* to decode, one past the end of the buffer.
ConnWrites ==
    {[offset |-> 0, buf |-> MsgAdd], [offset |-> 0, buf |-> MsgTimeSync],
     [offset |-> 0, buf |-> MsgClearAll], [offset |-> 0, buf |-> MsgUnknown],
     [offset |-> NOTIFICATION_BUFFER_SIZE - 2, buf |-> <<7, 8, 9>>]}

GattWrite(w) ==
    /\ LinkUp
    /\ conn_sec >= BT_SECURITY_L2
    /\ OnWrite(w)

NextLink ==
    \/ \E err \in ConnectErrs : Connected(err)
    \/ Disconnected
    \/ \E level \in SecurityLevels, err \in SecurityErrs : SecurityChanged(level, err)
    \/ \E passkey \in Passkeys : PasskeyDisplay(passkey)
    \/ \E passkey \in Passkeys : PasskeyConfirm(passkey)
    \/ AuthCancel
    \/ PairingComplete
    \/ PairingFailed
    \/ ConfirmClick
    \/ RejectClick

NextConn ==
    \/ NextLink
    \/ \E w \in ConnWrites : GattWrite(w)

SpecConn == Init /\ [][NextConn]_vars

(***************************************************************************)
(* The connection events with the exported functions of bluetooth.h called *)
(* at any time.                                                            *)
(***************************************************************************)
StartAdvertising ==
    \E adv_ok \in BOOLEAN :
        ConnStep(start_advertising(Begin(State), adv_ok), conn_sec,
                 [op |-> "start_advertising", was_active |-> advertising_active,
                  from |-> current_state])

StopAdvertising ==
    \E adv_ok \in BOOLEAN :
        ConnStep(stop_advertising(Begin(State), adv_ok), conn_sec,
                 [op |-> "stop_advertising", was_active |-> advertising_active,
                  from |-> current_state])

ConfirmPairing ==
    ConnStep(confirm_pairing(Begin(State)), conn_sec,
             [op |-> "confirm_pairing",
              session |-> pairing_in_progress /\ pairing_conn # "NULL"])

RejectPairing ==
    ConnStep(reject_pairing(Begin(State)), conn_sec,
             [op |-> "reject_pairing",
              session |-> pairing_in_progress /\ pairing_conn # "NULL"])

NextApi ==
    \/ NextLink
    \/ StartAdvertising
    \/ StopAdvertising
    \/ ConfirmPairing
    \/ RejectPairing

SpecApi == Init /\ [][NextApi]_vars

(***************************************************************************)
(* The device with a user and a peer: the delete and undo gestures and the *)
(* ticks of the main loop, with the connection events arriving in          *)
(* between.                                                                *)
(***************************************************************************)
NextDevice ==
    \/ \E g \in {"TOP", "CLICKED"} : Gesture(g)
    \/ Tick
    \/ Connected(0)
    \/ Disconnected
    \/ SecurityChanged(2, 0)
    \/ PasskeyDisplay(123456)
    \/ PasskeyConfirm(123456)
    \/ AuthCancel
    \/ PairingComplete
    \/ PairingFailed

SpecDevice == Init /\ [][NextDevice]_vars

(***************************************************************************)
(* The user and a peer that only adds: the delete and undo gestures and    *)
(* the ticks, with AddNotification commands arriving also while a deletion *)
(* is pending.                                                             *)
(* The snapshot of the request is kept across such an add.                 *)
(***************************************************************************)
PeerAdd(a) ==
    /\ Running
    /\ main_pc = "idle"
    /\ SetState(notifications_add_notification_with_timestamp(
                    Begin(State), a.app_name, a.sender, a.content, a.timestamp))
    /\ last' = [op |-> "add"]
    /\ snap' = IF snap.valid /\ delete_pending THEN [snap EXCEPT !.event = "add"]
               ELSE NoSnap
    /\ UNCHANGED <<writes, main_pc>>

NextAdds ==
    \/ \E g \in {"TOP", "CLICKED"} : Gesture(g)
    \/ Tick
    \/ \E a \in StoreAdds : PeerAdd(a)

SpecAdds == Init /\ [][NextAdds]_vars

(***************************************************************************)
(* The device under a fair tick: the main loop of main() never ends and    *)
(* calls notifications_handle_timers on every pass, so a tick that stays   *)
(* possible is eventually taken.  The delete and undo gestures, the peer's *)
(* AddNotification and ClearAll and the link going up and down happen in   *)
(* between, with no fairness.                                              *)
(***************************************************************************)
NextLive ==
    \/ \E g \in {"TOP", "CLICKED"} : Gesture(g)
    \/ Tick
    \/ \E a \in StoreAdds : AddNotification(a)
    \/ ClearAll
    \/ Connected(0)
    \/ Disconnected

SpecLive == Init /\ [][NextLive]_vars /\ WF_vars(Tick)

(***************************************************************************)
(* The main loop at the grain of complete_deletion's statements.  No       *)
(* handler takes a lock.  The Bluetooth callbacks run in the host stack's  *)
(* cooperative threads and preempt the main thread (preemptible) wherever  *)
(* it is; the gestures run in the LVGL thread, below the main thread, and  *)
(* so only while the main loop sleeps.                                     *)
(***************************************************************************)
Completes(s) ==
    /\ s.delete_pending
    /\ s.delete_timer_counter + 1 >= DELETE_TIMEOUT
    /\ s.delete_pending_index >= 0

TickShift ==
    /\ Running
    /\ main_pc = "idle"
    /\ Completes(State)
    /\ SetState(cd_shift([Begin(State) EXCEPT !.delete_timer_counter = @ + 1]))
    /\ main_pc' = "shifted"
    /\ last' = [op |-> "tick"]
    /\ snap' = Ticked
    /\ UNCHANGED writes

TickCount ==
    /\ Running
    /\ main_pc = "shifted"
    /\ SetState(cd_count(State))
    /\ main_pc' = "counted"
    /\ UNCHANGED <<last, snap, writes>>

TickFinish ==
    /\ Running
    /\ main_pc = "counted"
    /\ SetState(cd_finish(State))
    /\ main_pc' = "idle"
    /\ UNCHANGED <<last, snap, writes>>

NextConc ==
    \/ \E g \in Gestures : Gesture(g)
    \/ ~Completes(State) /\ Tick
    \/ TickShift
    \/ TickCount
    \/ TickFinish
    \/ \E a \in StoreAdds : AddNotification(a)
    \/ ClearAll

SpecConc == Init /\ [][NextConc]_vars

(***************************************************************************)
(* Properties.                                                             *)
(***************************************************************************)
storeVars == <<notifications, notification_count, current_notification,
               delete_pending, delete_pending_index, delete_timer_counter>>
clockVars == <<time_is_valid, last_set_timestamp>>

\* The step is a characteristic write (of last'.buf at last'.offset).
WriteStep == writes' = writes + 1

\* C1: a write with offset + len > 512 is rejected with an error result and the
\* buffer-overflow callback, leaves notification_buffer and
\* notification_buffer_len as they were, and decodes and dispatches nothing.
C1_OverflowRejected ==
    [][(WriteStep /\ last'.offset + Len(last'.buf) > 512) =>
          /\ out'.ret < 0
          /\ out'.overflow_cb # "none"
          /\ notification_buffer' = notification_buffer
          /\ notification_buffer_len' = notification_buffer_len
          /\ out'.dispatch = NoDispatch
          /\ out'.malformed_cb = "none"
          /\ UNCHANGED <<storeVars, clockVars, status_circle>>]_vars

\* An overflowing write was rejected while an earlier fragment was in the buffer.
C1_Witness ==
    /\ last.op = "write"
    /\ last.offset + Len(last.buf) > 512
    /\ out.ret < 0
    /\ notification_buffer_len > 0
    /\ notification_buffer[5] = 232

\* C2: after clear_all, also with a deletion pending, no deletion is pending (so
\* that no later tick removes a record or changes the length).
C2_ClearAllCancelsPending ==
    last.op = "clear_all" => ~delete_pending

\* C3: 0 <= cursor < len whenever the store holds records (len > 0), and
\* cursor = 0 whenever it holds none.
StoreLen == Cardinality(DOMAIN notifications)

C3_CursorInRange ==
    /\ StoreLen > 0 => (0 <= current_notification /\ current_notification < StoreLen)
    /\ StoreLen = 0 => current_notification = 0

\* C4: an AddNotification message is accepted (dispatched to the store) only if
\* 9 + applen + titlelen + bodylen equals the message length.
C4_ExactLength ==
    (last.op = "write" /\ last.offset = 0
     /\ out.dispatch.call = "notifications_add_notification_with_timestamp")
        => 9 + last.buf[3] + last.buf[4] + last.buf[5] = Len(last.buf)

\* The completed message m does not decode: it is empty, has an unknown tag, is
\* a TimeSync under 5 bytes, or an AddNotification under 9 bytes or shorter than
\* its declared lengths.
FailsToDecode(m) ==
    \/ Len(m) = 0
    \/ /\ Len(m) > 0
       /\ \/ m[1] \notin 1..5
          \/ m[1] = 5 /\ Len(m) < 5
          \/ m[1] = 1 /\ Len(m) < 9
          \/ m[1] = 1 /\ Len(m) >= 9 /\ 9 + m[3] + m[4] + m[5] > Len(m)

\* C5: a completed message that fails to decode is reported to the
\* malformed-packet callback and leaves the store, the clock and the displayed
\* connection status unchanged; so does every message the parser reports.
C5_DecodeFailureChangesNothing ==
    [][(WriteStep /\ last'.offset = 0) =>
          /\ FailsToDecode(last'.buf) => out'.malformed_cb # "none"
          /\ out'.malformed_cb # "none" =>
                /\ UNCHANGED <<storeVars, clockVars, status_circle>>
                /\ out'.dispatch = NoDispatch]_vars

\* A message with declared lengths beyond its end was rejected after an
\* AddNotification had set the status and a TimeSync the clock.
C5_Witness ==
    /\ last.op = "write"
    /\ last.buf = MsgAddTruncated
    /\ out.malformed_cb = "Invalid packet lengths"
    /\ status_circle = "CONN_CONNECTED"
    /\ time_is_valid

\* What a delivery leaves: the store, the clock, the displayed status, and the
\* commands it decoded.
Effect(s, decoded) ==
    [notifications |-> s.notifications,
     notification_count |-> s.notification_count,
     current_notification |-> s.current_notification,
     delete_pending |-> s.delete_pending,
     delete_pending_index |-> s.delete_pending_index,
     delete_timer_counter |-> s.delete_timer_counter,
     time_is_valid |-> s.time_is_valid,
     last_set_timestamp |-> s.last_set_timestamp,
     decoded |-> SelectSeq(decoded, LAMBDA d : d # NoDispatch)]

Whole(s, m, ok) ==
    LET a == on_notification_write(Begin(s), m, 0, ok)
    IN  Effect(a, <<a.out.dispatch>>)

Split(s, m, k, ok) ==
    LET a == on_notification_write(Begin(s), Front(m, k), 0, ok)
        b == on_notification_write(Begin(a), Rest(m, k), k, ok)
    IN  Effect(b, <<a.out.dispatch, b.out.dispatch>>)

\* C6: a message delivered as two writes (offset 0 with its first k bytes, then
\* offset k with the rest) decodes to the same command, with the same effect on
\* the store and the clock, as the message delivered in one write at offset 0.
C6_ReassemblyIdempotence ==
    \A m \in Messages : \A k \in 1 .. (Len(m) - 1) : \A ok \in BOOLEAN :
        Split(State, m, k, ok) = Whole(State, m, ok)

\* C7: no store mutation of the transport callbacks (add, clear_all) runs while
\* the tick context is inside a store operation.
C7_NoInterleaving ==
    last.op \in {"add", "clear_all"} => main_pc = "idle"

\* C8: request_delete followed by undo_delete before the timeout, with ticks
\* and ignored gestures only in between, leaves the records, their read flags,
\* the length and the cursor as they were at the request, and nothing pending.
C8_UndoRestores ==
    (last.op = "CLICKED" /\ snap.valid) =>
        /\ notifications = snap.notifications
        /\ notification_count = snap.notification_count
        /\ current_notification = snap.current_notification
        /\ ~delete_pending
        /\ delete_pending_index = -1
        /\ delete_timer_counter = 0

\* A deletion of a record other than the first was undone after some ticks.
C8_Witness ==
    /\ last.op = "CLICKED"
    /\ snap.valid
    /\ snap.ticks > 0
    /\ snap.current_notification > 0
    /\ ~delete_pending

\* C9: request_delete(i) followed by DELETE_TIMEOUT ticks with no undo removes
\* the record that was at index i, moves the later records down by one in
\* order, decreases the length by one, clamps the cursor to
\* min(cursor, len - 1) (0 if empty) and leaves nothing pending.
C9_TimeoutRemoves ==
    (last.op = "tick" /\ snap.valid /\ ~delete_pending) =>
        LET i == snap.current_notification
            n == snap.notification_count
        IN  /\ snap.ticks = DELETE_TIMEOUT
            /\ notification_count = n - 1
            /\ DOMAIN notifications = Live(n - 1)
            /\ \A j \in Live(n - 1) :
                   notifications[j] = snap.notifications[IF j < i THEN j ELSE j + 1]
            /\ current_notification =
                   (IF n - 1 = 0 THEN 0 ELSE Min(snap.current_notification, n - 2))
            /\ delete_pending_index = -1
            /\ delete_timer_counter = 0

\* The timeout removed a record that had records after it.
C9_Witness ==
    /\ last.op = "tick"
    /\ snap.valid
    /\ ~delete_pending
    /\ snap.current_notification > 0
    /\ snap.current_notification < snap.notification_count - 1

\* C10: an add to a full store evicts the record at index 0, keeps the others
\* in order, appends the new record last and leaves the length at capacity; the
\* length never exceeds capacity.
C10_Eviction ==
    /\ [][\A a \in StoreAdds :
             (AddNotification(a) /\ notification_count = MAX_NOTIFICATIONS) =>
                /\ notification_count' = MAX_NOTIFICATIONS
                /\ DOMAIN notifications' = Live(MAX_NOTIFICATIONS)
                /\ \A j \in Live(MAX_NOTIFICATIONS - 1) :
                       notifications'[j] = notifications[j + 1]
                /\ notifications'[MAX_NOTIFICATIONS - 1] =
                       [app_name |-> a.app_name, sender |-> a.sender,
                        content |-> a.content, timestamp |-> a.timestamp,
                        is_read |-> FALSE]]_vars
    /\ [](notification_count <= MAX_NOTIFICATIONS)

\* The first sample was evicted by an add to the full store.
C10_Witness ==
    /\ last.op = "add"
    /\ notification_count = MAX_NOTIFICATIONS
    /\ notifications[0] = SampleNotifications[1]
    /\ notifications[MAX_NOTIFICATIONS - 1].app_name = Str(65)

(***************************************************************************)
(* The connection and pairing state machine.                               *)
(***************************************************************************)
NoSession == ~pairing_in_progress /\ pairing_passkey = 0 /\ pairing_conn = "NULL"

\* C11: the disconnect event, from every connection state and with or without
\* a pairing session, passes through BLE_STATE_DISCONNECTED, leaves no pairing
\* session (not in progress, passkey 0, no pending connection) and no passkey
\* screen, shows the status disconnected and re-arms advertising: advertising is
\* active afterwards, and the state BLE_STATE_ADVERTISING, unless the
\* transport refused the start request.
C11_DisconnectResets ==
    last.op = "disconnected" =>
        /\ Len(out.states) >= 1 /\ out.states[1] = "BLE_STATE_DISCONNECTED"
        /\ current_conn = "NULL"
        /\ NoSession
        /\ ~screen_visible /\ pairing_screen = "NULL"
        /\ status_circle = "CONN_DISCONNECTED"
        /\ out.adv_start = "failed" \/ advertising_active
        /\ out.adv_start = "ok" => current_state = "BLE_STATE_ADVERTISING"
        /\ out.adv_start # "ok" => current_state = "BLE_STATE_DISCONNECTED"

\* A paired link with a pairing session outstanding was dropped and advertising
\* restarted.
C11_Witness ==
    /\ last.op = "disconnected"
    /\ last.from = "BLE_STATE_PAIRED" /\ last.session /\ last.visible
    /\ current_state = "BLE_STATE_ADVERTISING"

\* C12: after a failed link establishment (connected with an error) the device
\* advertises and the state is BLE_STATE_ADVERTISING, unless the transport
\* refused the start request.
C12_FailedLinkReadvertises ==
    (last.op = "connected" /\ last.err # 0 /\ out.adv_start # "failed") =>
        /\ advertising_active
        /\ current_state = "BLE_STATE_ADVERTISING"

\* C13 as stated: after a successful link establishment the state is
\* BLE_STATE_CONNECTING and a security upgrade has been requested.
C13_BecomesConnecting ==
    (last.op = "connected" /\ last.err = 0) =>
        /\ current_state = "BLE_STATE_CONNECTING"
        /\ out.set_security # "none"

\* C13 as amended: after a successful link establishment the state is
\* BLE_STATE_CONNECTED (the status shown is CONN_CONNECTING), the link is held
\* and the security upgrade has been requested by the same handler.
C13_BecomesConnected ==
    (last.op = "connected" /\ last.err = 0) =>
        /\ current_state = "BLE_STATE_CONNECTED"
        /\ out.states = <<"BLE_STATE_CONNECTED">>
        /\ status_circle = "CONN_CONNECTING"
        /\ current_conn = "peer"
        /\ ~advertising_active
        /\ out.set_security # "none"

\* A link was established while advertising.
C13_Witness ==
    /\ last.op = "connected" /\ last.err = 0
    /\ last.from = "BLE_STATE_ADVERTISING"
    /\ current_state = "BLE_STATE_CONNECTED"
    /\ out.set_security = "ok"

\* C14: security_changed sets the state to BLE_STATE_PAIRED exactly when it
\* reports no error and a level of BT_SECURITY_L2 or above; with an error, or a
\* lower level, it leaves the state, the pairing session and the status shown
\* as they were.
C14_SecurityChanged ==
    [][last'.op = "security_changed" =>
          IF last'.err = 0 /\ last'.level >= 2
          THEN current_state' = "BLE_STATE_PAIRED"
          ELSE UNCHANGED <<current_state, pairing_in_progress, pairing_passkey,
                           pairing_conn, status_circle>>]_vars

\* A connected link reached level 2 and became paired.
C14_Witness ==
    /\ last.op = "security_changed" /\ last.err = 0 /\ last.level = 2
    /\ last.from = "BLE_STATE_CONNECTED"
    /\ current_state = "BLE_STATE_PAIRED"

\* C15: after pairing_complete the state is BLE_STATE_PAIRED, the status shown
\* is CONN_CONNECTED, no pairing session is left and the passkey screen is
\* hidden and destroyed.
C15_PairingComplete ==
    last.op = "pairing_complete" =>
        /\ current_state = "BLE_STATE_PAIRED"
        /\ status_circle = "CONN_CONNECTED"
        /\ NoSession
        /\ ~is_pairing_screen_visible(State) /\ pairing_screen = "NULL"
        /\ scr_act # "pairing_screen"

\* Pairing completed on a connected link whose passkey screen was shown.
C15_Witness ==
    /\ last.op = "pairing_complete"
    /\ last.from = "BLE_STATE_CONNECTED" /\ last.session /\ last.visible
    /\ current_state = "BLE_STATE_PAIRED"

C17_NoSessionNoOp ==
    [][last'.op \in {"confirm_pairing", "reject_pairing"} =>
          IF last'.session
          THEN out'.ret = 0 /\ out'.auth # "none"
          ELSE /\ out'.ret = -22
               /\ out'.auth = "none"
               /\ Begin(State)' = Begin(State)]_vars

\* confirm_pairing was refused on a link with no session.
C17_Witness ==
    /\ last.op = "confirm_pairing" /\ ~last.session
    /\ current_conn # "NULL"
    /\ out.ret < 0

\* The six characters "%06u" prints for the passkeys of the model.
Shown(passkey) == IF passkey = 123456 THEN <<1, 2, 3, 4, 5, 6>> ELSE <<0, 0, 0, 0, 4, 2>>

\* C18: there is one pairing session; after a passkey request, also one that
\* arrives while a session is outstanding, the session's passkey and pending
\* connection, the code get_pairing_code returns and the passkey label of the
\* visible pairing screen are those of that request.
C18_LatestPasskey ==
    last.op = "passkey" =>
        /\ pairing_in_progress
        /\ pairing_passkey = last.passkey
        /\ pairing_conn = current_conn /\ pairing_conn # "NULL"
        /\ get_pairing_code(State, 7) = [ret |-> 0, code |-> Shown(last.passkey)]
        /\ passkey_label = Shown(last.passkey)
        /\ screen_visible /\ scr_act = "pairing_screen"

\* A second request, with another passkey, replaced an outstanding session.
C18_Witness ==
    /\ last.op = "passkey" /\ last.replaced
    /\ last.old = 123456 /\ last.passkey = 42
    /\ passkey_label = <<0, 0, 0, 0, 4, 2>>

C20_ErrorsSurfaced ==
    LET reported == \/ out.overflow_cb # "none"
                    \/ out.malformed_cb # "none"
                    \/ out.drop_cb # "none"
    IN  /\ (last.op = "write" /\ WriteOverflows(last.offset, Len(last.buf)))
               => out.overflow_cb # "none"
        /\ (last.op = "write" /\ ~WriteOverflows(last.offset, Len(last.buf))
               /\ last.offset = 0 /\ FailsToDecode(last.buf))
               => out.malformed_cb # "none"
        /\ last.op = "disconnected" => out.drop_cb # "none"
        /\ (last.op = "connected" /\ last.err # 0) => reported
        /\ (last.op = "security_changed" /\ last.err # 0) => reported
        /\ out.set_security = "failed" => reported

\* C21: every handler that assigns BLE_STATE_DISCONNECTED (disconnected,
\* connected with an error, stop_advertising) leaves no passkey screen shown,
\* has advertising running again (unless the transport refused the start
\* request) and shows the status disconnected.
C21_DisconnectedSideEffects ==
    (\E i \in 1..Len(out.states) : out.states[i] = "BLE_STATE_DISCONNECTED") =>
        /\ ~screen_visible /\ scr_act # "pairing_screen"
        /\ out.adv_start = "failed" \/ advertising_active
        /\ status_circle = "CONN_DISCONNECTED"

\* C22: start_advertising called in BLE_STATE_DISCONNECTED moves the state to
\* BLE_STATE_ADVERTISING (unless the transport refuses the start request);
\* called while advertising it returns 0, sends no start request and changes
\* neither the state nor the status shown.
C22_StartAdvertising ==
    [][last'.op = "start_advertising" =>
          /\ (current_state = "BLE_STATE_DISCONNECTED" /\ out'.adv_start # "failed")
                 => current_state' = "BLE_STATE_ADVERTISING"
          /\ (advertising_active \/ current_state = "BLE_STATE_ADVERTISING")
                 => /\ out'.ret = 0
                    /\ out'.adv_start = "none"
                    /\ UNCHANGED <<current_state, status_circle>>]_vars

\* C23: notification_buffer_len never exceeds 512, and every accepted write
\* copies its bytes to offsets inside the 512-byte buffer.
C23_BufferBounded ==
    /\ 0 <= notification_buffer_len /\ notification_buffer_len <= 512
    /\ (last.op = "write" /\ out.overflow_cb = "none") =>
           /\ last.offset >= 0
           /\ last.offset + Len(last.buf) <= 512
           /\ \A i \in 1..Len(last.buf) :
                  notification_buffer[last.offset + i - 1] = last.buf[i]

\* A fragment was accepted that ends at the last byte of the buffer.
C23_Witness ==
    /\ last.op = "write" /\ last.offset = 509
    /\ notification_buffer_len = 512
    /\ notification_buffer[511] = 9

\* C24: a write calls the parser exactly when it is accepted and has offset 0,
\* never when its offset is not 0; after the call, whether the message decoded
\* or not, notification_buffer_len is 0.
C24_DecodeAtOffsetZero ==
    [][WriteStep =>
          /\ out'.parsed.called <=> (out'.ret >= 0 /\ last'.offset = 0)
          /\ out'.parsed.called => notification_buffer_len' = 0]_vars

\* After a fragment at a non-zero offset, an offset-0 write was parsed and
\* failed to decode, and the length is 0 again.
C24_Witness ==
    /\ last.op = "write" /\ last.offset = 0
    /\ out.parsed.called /\ out.malformed_cb # "none"
    /\ notification_buffer_len = 0
    /\ notification_buffer[5] # 0

\* C25: an accepted write at a non-zero offset sets notification_buffer_len to
\* the larger of its previous value and offset + len, and so never lowers it.
C25_FilledLenIsMax ==
    [][(WriteStep /\ out'.ret >= 0 /\ last'.offset # 0) =>
          notification_buffer_len' =
              (IF notification_buffer_len > last'.offset + Len(last'.buf)
               THEN notification_buffer_len
               ELSE last'.offset + Len(last'.buf))]_vars

(***************************************************************************)
(* The store handlers, applied to every reachable state of the store.      *)
(***************************************************************************)
AddedRecord ==
    [app_name |-> <<65>>, sender |-> <<66>>, content |-> <<67>>,
     timestamp |-> <<0, 1000>>, is_read |-> FALSE]

\* C26: in every state whose store is below capacity, also with a deletion
\* pending, add leaves the existing records as they are, stores the new record,
\* unread, as the new last one and sets the cursor to its index.
C26_AddAppends ==
    notification_count < MAX_NOTIFICATIONS =>
        LET r == notifications_add_notification_with_timestamp(
                     Begin(State), <<65>>, <<66>>, <<67>>, U32(1000))
        IN  /\ r.notification_count = notification_count + 1
            /\ DOMAIN r.notifications = Live(notification_count + 1)
            /\ \A i \in DOMAIN notifications : r.notifications[i] = notifications[i]
            /\ notification_count \in DOMAIN r.notifications
            /\ r.notifications[notification_count] = AddedRecord
            /\ r.current_notification = notification_count
            /\ r.delete_pending = delete_pending
            /\ r.delete_pending_index = delete_pending_index
            /\ r.delete_timer_counter = delete_timer_counter

\* C27: with no deletion pending, the LEFT and RIGHT gestures mark the current
\* record read and move the cursor to (cursor + 1) mod len and
\* (cursor - 1 + len) mod len, changing no other record and not the length; on
\* a store with no records they change nothing.
C27_CircularNavigation ==
    ~delete_pending =>
        LET s == Begin(State)
            n == notification_count
            c == current_notification
        IN  IF StoreLen = 0
            THEN /\ screen_event_handler(s, "LEFT") = s
                 /\ screen_event_handler(s, "RIGHT") = s
            ELSE /\ screen_event_handler(s, "LEFT") =
                        [s EXCEPT !.notifications[c].is_read = TRUE,
                                  !.current_notification = (c + 1) % n]
                 /\ screen_event_handler(s, "RIGHT") =
                        [s EXCEPT !.notifications[c].is_read = TRUE,
                                  !.current_notification = (c - 1 + n) % n]

\* RIGHT on the first of five records wrapped to the last and marked the first
\* read.
C27_Witness ==
    /\ last.op = "RIGHT"
    /\ notification_count = 5 /\ current_notification = 4
    /\ notifications[0].is_read

\* C28: the TOP gesture removes nothing: with records in the store it only
\* sets the pending deletion to the cursor with the timer at 0, and on a store
\* with no records it changes nothing.  While a deletion is pending the TOP,
\* LEFT, RIGHT and DOUBLE_CLICKED gestures change nothing.
C28_RequestDelete ==
    LET s == Begin(State)
    IN  IF delete_pending
        THEN \A g \in {"TOP", "LEFT", "RIGHT", "DOUBLE_CLICKED"} :
                 screen_event_handler(s, g) = s
        ELSE IF StoreLen = 0
        THEN screen_event_handler(s, "TOP") = s
        ELSE screen_event_handler(s, "TOP") =
                 [s EXCEPT !.delete_pending = TRUE,
                           !.delete_pending_index = current_notification,
                           !.delete_timer_counter = 0]

\* C29: while the deletion requested is pending, the timer equals the number
\* of ticks since the request, is below DELETE_TIMEOUT, and the records are
\* those of the request; by the DELETE_TIMEOUT-th tick the deletion is no
\* longer pending and the store is one record shorter.  A tick with nothing
\* pending changes nothing, and a request leaves the timer at 0.
C29_TimerCounts ==
    /\ (snap.valid /\ delete_pending) =>
           /\ delete_timer_counter = snap.ticks
           /\ snap.ticks < DELETE_TIMEOUT
           /\ notifications = snap.notifications
           /\ notification_count = snap.notification_count
    /\ (snap.valid /\ snap.ticks >= DELETE_TIMEOUT) =>
           /\ snap.ticks = DELETE_TIMEOUT
           /\ ~delete_pending
           /\ notification_count = snap.notification_count - 1
    /\ ~delete_pending => handle_delete_timeout(Begin(State)) = Begin(State)
    /\ (last.op = "TOP" /\ delete_pending) => delete_timer_counter = 0

\* The connection events.
LinkOps ==
    {"connected", "disconnected", "security_changed", "passkey", "auth_cancel",
     "pairing_complete", "pairing_failed"}

\* C30: no connection event changes the store or the pending deletion: with
\* connection events (a disconnect among them) arriving while a deletion is
\* pending, the timer still equals the number of ticks since the request and
\* the deletion completes on tick DELETE_TIMEOUT, removing one record.
C30_ConnectionEventsLeaveStore ==
    /\ [][last'.op \in LinkOps => UNCHANGED storeVars]_vars
    /\ []((snap.valid /\ delete_pending) =>
              /\ delete_timer_counter = snap.ticks
              /\ snap.ticks < DELETE_TIMEOUT)
    /\ []((last.op = "tick" /\ snap.valid /\ ~delete_pending) =>
              /\ snap.ticks = DELETE_TIMEOUT
              /\ notification_count = snap.notification_count - 1)

\* A deletion completed whose pending time saw the link drop.
C30_Witness ==
    /\ last.op = "tick"
    /\ snap.valid /\ snap.event = "disconnected" /\ snap.ticks = 20
    /\ ~delete_pending
    /\ notification_count = 4

\* The uint32_t with the bytes b1 (least significant) to b4, as the pair of its
\* high and low 16 bits: the value below 2^31, and bit 31 from b4.
WireU32(b1, b2, b3, b4) ==
    LET low31 == b1 + b2 * 256 + b3 * 65536 + (b4 % 128) * 16777216
    IN  <<(low31 \div 65536) + (b4 \div 128) * 32768, low31 % 65536>>

\* C31: a TimeSync message is accepted iff its length is at least 5; the
\* timestamp passed to the clock is byte1 + byte2*2^8 + byte3*2^16 + byte4*2^24,
\* also with byte4 >= 128; a shorter message is reported as malformed and does
\* not set the clock.
C31_TimeSyncDecode ==
    [][(WriteStep /\ last'.offset = 0 /\ Len(last'.buf) >= 1
        /\ last'.buf[1] = CMD_TIME_SYNC) =>
          LET m == last'.buf
          IN  /\ Len(m) >= 5 =>
                    /\ out'.malformed_cb = "none"
                    /\ out'.dispatch =
                           [call |-> "ENR_rtc_set_time",
                            timestamp |-> WireU32(m[2], m[3], m[4], m[5])]
                    /\ \/ /\ time_is_valid'
                          /\ last_set_timestamp' = WireU32(m[2], m[3], m[4], m[5])
                       \/ UNCHANGED clockVars
              /\ Len(m) < 5 =>
                    /\ out'.malformed_cb # "none"
                    /\ out'.dispatch = NoDispatch
                    /\ UNCHANGED clockVars]_vars

\* The clock was set to 2^32 - 2^24 + 255 from a TimeSync with byte4 = 255.
C31_Witness ==
    /\ last.op = "write"
    /\ last.buf = <<CMD_TIME_SYNC, 255, 0, 0, 255>>
    /\ time_is_valid
    /\ last_set_timestamp = <<65280, 255>>

\* The message m is a well-formed AddNotification: the tag, a 9-byte header and
\* exactly the declared string bytes.
WellFormedAdd(m) ==
    /\ Len(m) >= 9
    /\ m[1] = CMD_ADD_NOTIFICATION
    /\ 9 + m[3] + m[4] + m[5] = Len(m)

\* The record the message m encodes: each string from its declared range, cut
\* to the capacity of its field.
Encoded(m) ==
    [app_name |-> Prefix(SubSeq(m, 10, 9 + m[3]), 31),
     sender |-> Prefix(SubSeq(m, 10 + m[3], 9 + m[3] + m[4]), 63),
     content |-> Prefix(SubSeq(m, 10 + m[3] + m[4], 9 + m[3] + m[4] + m[5]), 255),
     timestamp |-> WireU32(m[6], m[7], m[8], m[9]),
     is_read |-> FALSE]

\* C32: a well-formed AddNotification message appends the record with the
\* encoded timestamp and the encoded app name, title and body, each from its
\* own declared range and cut to 31, 63 and 255 bytes, without a write outside
\* the storage.
C32_AddRoundTrip ==
    [][(WriteStep /\ last'.offset = 0 /\ WellFormedAdd(last'.buf)) =>
          /\ out'.malformed_cb = "none"
          /\ ~out'.oob_write
          /\ notification_count' >= 1
          /\ notifications'[notification_count' - 1] = Encoded(last'.buf)]_vars

\* RemoveNotification and Action messages of 1 to 512 bytes, and ClearAll
\* messages with 0 to 511 bytes after the tag.
ReservedMsgs ==
    {<<CMD_REMOVE_NOTIFICATION>>, <<CMD_REMOVE_NOTIFICATION, 9, 9>>,
     <<CMD_REMOVE_NOTIFICATION>> \o Ramp(1, 511),
     <<CMD_ACTION>>, <<CMD_ACTION, 1>>, <<CMD_ACTION>> \o Ramp(1, 300)}

ClearAllMsgs ==
    {<<CMD_CLEAR_ALL>>, <<CMD_CLEAR_ALL, 7>>, <<CMD_CLEAR_ALL>> \o Ramp(1, 511)}

\* The write of message m in state s reports no error and changes nothing but
\* the write buffer.
Inert(s, m) ==
    \A rtc_ok \in BOOLEAN :
        LET r == on_notification_write(Begin(s), m, 0, rtc_ok)
        IN  /\ r.out.ret = Len(m)
            /\ r.out = [NoOut EXCEPT !.ret = Len(m), !.parsed = r.out.parsed]
            /\ \A f \in DOMAIN r \ {"out", "notification_buffer", "notification_buffer_len"} :
                   r[f] = s[f]

\* The write of message m in state s is executed as ClearAll.
Clears(s, m) ==
    \A rtc_ok \in BOOLEAN :
        LET r == on_notification_write(Begin(s), m, 0, rtc_ok)
        IN  /\ r.out.ret = Len(m)
            /\ r.out.malformed_cb = "none" /\ r.out.overflow_cb = "none"
            /\ r.out.dispatch = [call |-> "notifications_clear_all"]
            /\ r.notification_count = 0

\* C33: RemoveNotification (2) and Action (4) messages of any length decode
\* without error and are inert: no error callback, and the store, the clock
\* and the connection state stay as they were.  ClearAll (3) is accepted with
\* any number of bytes after the tag.
C33_ReservedInert ==
    /\ [](\A m \in ReservedMsgs : Inert(State, m))
    /\ [](\A m \in ClearAllMsgs : Clears(State, m))
    /\ [][(WriteStep /\ last'.offset = 0 /\ Len(last'.buf) >= 1
           /\ last'.buf[1] \in {CMD_REMOVE_NOTIFICATION, CMD_ACTION}) =>
             /\ out'.ret = Len(last'.buf)
             /\ out'.malformed_cb = "none" /\ out'.overflow_cb = "none"
             /\ out'.dispatch = NoDispatch
             /\ UNCHANGED <<storeVars, clockVars, status_circle, current_conn,
                            current_state, advertising_active, pairing_in_progress,
                            pairing_passkey, pairing_conn>>]_vars

\* An Action message was written after an AddNotification and a TimeSync had
\* changed the store and the clock.
C33_Witness ==
    /\ last.op = "write"
    /\ last.buf = MsgAction
    /\ out.ret = 2 /\ out.malformed_cb = "none"
    /\ status_circle = "CONN_CONNECTED"
    /\ time_is_valid

\* C34: in every reachable state a pending deletion's index refers to a live
\* record: delete_pending implies 0 <= delete_pending_index < notification_count.
C34_PendingIndexLive ==
    delete_pending =>
        (0 <= delete_pending_index /\ delete_pending_index < notification_count)

\* C35: in every reachable state 0 <= notification_count <= MAX_NOTIFICATIONS,
\* and no add has written a record outside the notifications array.
C35_CountInRange ==
    /\ 0 <= notification_count
    /\ notification_count <= MAX_NOTIFICATIONS
    /\ ~out.oob_write

\* C36: the record removed when a pending deletion times out is the record
\* that was displayed when the delete was requested, also when adds arrived
\* in between, evicting ones included; the other records stay, in order.
C36_RemovesRequestedRecord ==
    [][(last'.op = "tick" /\ delete_pending /\ ~delete_pending' /\ snap.valid) =>
          LET requested == snap.notifications[snap.current_notification]
          IN  \E k \in Live(notification_count) :
                  /\ notifications[k] = requested
                  /\ notification_count' = notification_count - 1
                  /\ \A j \in Live(notification_count - 1) :
                         notifications'[j] =
                             notifications[IF j < k THEN j ELSE j + 1]]_vars

\* The state with the write buffer as init_bluetooth leaves it.
FreshBuffer(s) ==
    [s EXCEPT !.notification_buffer = [i \in Live(NOTIFICATION_BUFFER_SIZE) |-> 0],
              !.notification_buffer_len = 0]

C38_HideRestoresScreen ==
    [][(screen_visible /\ ~screen_visible') =>
          /\ scr_act' = "main_screen"
          /\ scr_act' # pairing_screen]_vars

\* C39: under a fair tick every pending deletion is eventually resolved, undone
\* or completed, and none stays pending after DELETE_TIMEOUT ticks, whatever
\* peer commands and connection events occur in the meantime.
C39_PendingResolved ==
    /\ delete_pending ~> ~delete_pending
    /\ [](delete_pending => delete_timer_counter < DELETE_TIMEOUT)

====
